---- MODULE Spec2Model ----
(***************************************************************************)
(* Model of the respond Collector (src/respond/collector.go): one UDP      *)
(* socket, a bounded queue of received responses, and the goroutines       *)
(* receiver, parser, sender (started by Start) and globalStatsWorker,      *)
(* together with the caller's Start and Close.                             *)
(*                                                                         *)
(* An unrecovered panic inside a goroutine aborts the whole Go process:    *)
(* it is modelled by aborted = TRUE, after which no action is enabled.     *)
(* A panic inside Start is raised in the caller and only fails that call.  *)
(***************************************************************************)
EXTENDS Integers, Sequences, FiniteSets, TLC

\* ---------------------------------------------------------------- bounds
QueueCap == 2          \* capacity of coll.queue (400 in the source), scaled down
MaxReads == 3          \* datagrams the socket delivers in one run
MaxPayloadReads == 1   \* datagrams delivered in the payload specification
MaxTicks == 2          \* request intervals that elapse in one run
MaxAggTicks == 1       \* aggregator minutes that elapse in one run
MaxStartCalls == 2     \* calls of Start in one run
MaxSendCalls == 1      \* writes of SendPacket calls of the caller in one run

\* ------------------------------------------------------------ input sets
Intervals == {-1, 0, 1}

Ids == {"short", "aabbccddeeff", "ffeeddccbbaa", "aabbccddeeff0"}

\* an optional section of data.ResponseData: <<>> is nil, <<id>> carries NodeID
Sections == {<<>>} \cup {<<id>> : id \in Ids}

Payloads == [nodeinfo : Sections, neighbours : Sections, statistics : Sections]

NoPayload == [nodeinfo |-> <<>>, neighbours |-> <<>>, statistics |-> <<>>]

\* a datagram on the wire: either the deflated JSON of a payload, or bytes
\* that do not decode
Garbage == [valid |-> FALSE, data |-> NoPayload]

Encode(p) == [valid |-> TRUE, data |-> p]

AllRaw == {Garbage} \cup {Encode(p) : p \in Payloads}

Wire ==
  { Garbage,
    Encode([nodeinfo |-> <<>>, neighbours |-> <<>>, statistics |-> <<"aabbccddeeff">>]) }

\* the datagrams of the registry specification: one that does not decode,
\* statistics and nodeinfo of one node, neighbours with an invalid NodeID
Mixed ==
  { Garbage,
    Encode([nodeinfo |-> <<>>, neighbours |-> <<>>, statistics |-> <<"aabbccddeeff">>]),
    Encode([nodeinfo |-> <<"aabbccddeeff">>, neighbours |-> <<>>, statistics |-> <<>>]),
    Encode([nodeinfo |-> <<>>, neighbours |-> <<"short">>, statistics |-> <<>>]) }

multicastAddr == "mcast"

\* addresses a caller passes to SendPacket: the multicast address, a unicast
\* address, and a string net.ResolveUDPAddr rejects (no port)
Unicast == "[fe80::1]:1001"
NoPort == "no-port-here"
Addresses == {multicastAddr, Unicast, NoPort}

VARIABLES
  hasDb,        \* coll.db != nil
  resolvable,   \* net.ResolveUDPAddr succeeds on coll.multicastAddr
  interval,     \* coll.interval
  stopClosed,   \* coll.stop has been closed
  connClosed,   \* coll.connection has been closed
  queueClosed,  \* coll.queue has been closed
  closePc,      \* statements of Close() executed by the caller, 0..3
  queue,        \* buffered content of coll.queue
  recvPc,       \* receiver: "read", "push", "done", "panic"
  recvBuf,      \* the Response the receiver is about to push
  reads,        \* successful ReadFromUDP calls
  received,     \* the datagrams ReadFromUDP returned, in order
  parserPc,     \* parser: "range", "done"
  consumed,     \* Responses taken from the queue by the parser, in order
  nodes,        \* registry: node id -> merged sections
  updates,      \* calls of nodes.Update, in order
  adds,         \* calls of db.Add, in order
  senderPc,     \* per Start goroutine: "idle", "sendOnce", "select", "send", "done", "panic"
  senderTick,   \* per Start goroutine: a value is waiting in ticker.C
  nTicks,       \* request intervals elapsed
  sendLog,      \* WriteToUDP calls, in order
  aggPc,        \* globalStatsWorker: "off", "select", "save", "done"
  aggTick,      \* a value is waiting in the aggregator's ticker.C
  aggTicks,     \* aggregator minutes elapsed
  aggWrites,    \* sink writes of saveGlobalStats, in order
  startCalls,   \* calls of Start
  startPanics,  \* calls of Start that panicked
  lastInterval, \* argument of the latest call of Start
  closeMark,    \* Responses pushed onto the queue before Close() was called
  logs,         \* kinds of log lines written
  aborted       \* the process died of an unrecovered goroutine panic

vars == << hasDb, resolvable, interval, stopClosed, connClosed, queueClosed,
           closePc, queue, recvPc, recvBuf, reads, received, parserPc, consumed,
           nodes,
           updates, adds, senderPc, senderTick, nTicks, sendLog, aggPc,
           aggTick, aggTicks, aggWrites, startCalls, startPanics,
           lastInterval, closeMark, logs, aborted >>

configVars == << hasDb, resolvable >>
closeVars == << stopClosed, connClosed, queueClosed, closePc, closeMark >>
recvVars == << recvPc, recvBuf, reads, received >>
parserVars == << parserPc, consumed, nodes, updates, adds >>
senderVars == << senderPc, senderTick, nTicks, sendLog >>
aggVars == << aggPc, aggTick, aggTicks, aggWrites >>
startVars == << interval, startCalls, startPanics, lastInterval >>

Slots == 1..MaxStartCalls

\* ------------------------------------------------------------ NewCollector
Init ==
  /\ hasDb \in BOOLEAN
  /\ resolvable \in BOOLEAN
  /\ interval = 0
  /\ stopClosed = FALSE
  /\ connClosed = FALSE
  /\ queueClosed = FALSE
  /\ closePc = 0
  /\ queue = <<>>
  /\ recvPc = "read"
  /\ recvBuf = Garbage
  /\ reads = 0
  /\ received = <<>>
  /\ parserPc = "range"
  /\ consumed = <<>>
  /\ nodes = <<>>
  /\ updates = <<>>
  /\ adds = <<>>
  /\ senderPc = [i \in Slots |-> "idle"]
  /\ senderTick = [i \in Slots |-> FALSE]
  /\ nTicks = 0
  /\ sendLog = <<>>
  /\ aggPc = IF hasDb THEN "select" ELSE "off"
  /\ aggTick = FALSE
  /\ aggTicks = 0
  /\ aggWrites = <<>>
  /\ startCalls = 0
  /\ startPanics = 0
  /\ lastInterval = 0
  /\ closeMark = 0
  /\ logs = {}
  /\ aborted = FALSE

\* ------------------------------------------------------------------- Start
\* Start without the "already started" check
StartPanicsNoStartedCheck(iv) == iv <= 0

\* Start that rejects negative intervals only
StartPanicsZeroAllowed(iv) == interval # 0 \/ iv < 0

\* the checks of Start: the call panics when already started or interval <= 0
StartPanics(iv) == interval # 0 \/ iv <= 0

Start(iv) ==
  /\ ~aborted
  /\ startCalls < MaxStartCalls
  /\ startCalls' = startCalls + 1
  /\ lastInterval' = iv
  /\ IF StartPanics(iv)
       THEN /\ startPanics' = startPanics + 1
            /\ UNCHANGED << interval, senderPc >>
       ELSE /\ startPanics' = startPanics
            /\ interval' = iv
            /\ senderPc' = [senderPc EXCEPT ![startCalls + 1] = "sendOnce"]
  /\ UNCHANGED << configVars, closeVars, queue, recvVars, parserVars,
                  senderTick, nTicks, sendLog, aggVars, logs, aborted >>

\* ------------------------------------------------------------------- Close
CloseStop ==
  /\ ~aborted
  /\ closePc = 0
  /\ closePc' = 1
  /\ stopClosed' = TRUE
  /\ closeMark' = Len(consumed) + Len(queue)
  /\ UNCHANGED << configVars, connClosed, queueClosed, queue, recvVars,
                  parserVars, senderVars, aggVars, startVars, logs, aborted >>

CloseConn ==
  /\ ~aborted
  /\ closePc = 1
  /\ closePc' = 2
  /\ connClosed' = TRUE
  /\ UNCHANGED << configVars, stopClosed, queueClosed, closeMark, queue,
                  recvVars, parserVars, senderVars, aggVars, startVars, logs,
                  aborted >>

CloseQueue ==
  /\ ~aborted
  /\ closePc = 2
  /\ closePc' = 3
  /\ queueClosed' = TRUE
  /\ UNCHANGED << configVars, stopClosed, connClosed, closeMark, queue,
                  recvVars, parserVars, senderVars, aggVars, startVars, logs,
                  aborted >>

\* -------------------------------------------------------------- SendPacket
\* net.ResolveUDPAddr("udp", address) returns no error
Resolves(address) ==
  IF address = multicastAddr THEN resolvable ELSE address # NoPort

\* results WriteToUDP can give: it fails on a closed socket
WriteResults == IF connClosed THEN {FALSE} ELSE BOOLEAN

\* SendPacket that panics on a failed write as it does on a failed resolve
SendPacketWriteFatal(address, kind) ==
  IF ~Resolves(address)
    THEN /\ logs' = logs \cup {"ResolveUDPAddr failed"}
         /\ aborted' = (kind # "caller")
         /\ UNCHANGED sendLog
    ELSE /\ sendLog' = Append(sendLog, [kind |-> kind, addr |-> address])
         /\ \E ok \in WriteResults :
              /\ logs' = IF ok THEN logs ELSE logs \cup {"WriteToUDP failed"}
              /\ aborted' = ~ok

\* SendPacket(address); kind tells who issued it: the caller, or a statement
\* of the sender. log.Panic logs the error and panics: in a goroutine of
\* the collector that ends the process, in the caller it fails the call.
SendPacket(address, kind) ==
  IF ~Resolves(address)
    THEN /\ logs' = logs \cup {"ResolveUDPAddr failed"}
         /\ aborted' = (kind # "caller")
         /\ UNCHANGED sendLog
    ELSE /\ sendLog' = Append(sendLog, [kind |-> kind, addr |-> address])
         /\ \E ok \in WriteResults :
              logs' = IF ok THEN logs ELSE logs \cup {"WriteToUDP failed"}
         /\ UNCHANGED aborted

sendOnce(kind) == SendPacket(multicastAddr, kind)

IsCallerSend(e) == e.kind = "caller"

\* the owner of the collector calls SendPacket(address), at any time
CallSendPacket(address) ==
  /\ ~aborted
  /\ Len(SelectSeq(sendLog, IsCallerSend)) < MaxSendCalls
  /\ SendPacket(address, "caller")
  /\ UNCHANGED << configVars, closeVars, queue, recvVars, parserVars,
                  senderPc, senderTick, nTicks, aggVars, startVars >>

\* ------------------------------------------------------------------ sender
\* a Start goroutine that goes to the periodic loop without the first send
SenderSkipsImmediate(i) ==
  /\ ~aborted
  /\ senderPc[i] = "sendOnce"
  /\ senderPc' = [senderPc EXCEPT ![i] = "select"]
  /\ UNCHANGED << configVars, closeVars, queue, recvVars, parserVars,
                  senderTick, nTicks, sendLog, aggVars, startVars, logs,
                  aborted >>

\* the goroutine of Start: coll.sendOnce(), then sender() creates its ticker
SenderSendOnce(i) ==
  /\ ~aborted
  /\ senderPc[i] = "sendOnce"
  /\ sendOnce("immediate")
  /\ senderPc' = [senderPc EXCEPT ![i] = IF aborted' THEN "panic" ELSE "select"]
  /\ UNCHANGED << configVars, closeVars, queue, recvVars, parserVars,
                  senderTick, nTicks, aggVars, startVars >>

\* select: case <-coll.stop
SenderSelectStop(i) ==
  /\ ~aborted
  /\ senderPc[i] = "select"
  /\ stopClosed
  /\ senderPc' = [senderPc EXCEPT ![i] = "done"]
  /\ senderTick' = [senderTick EXCEPT ![i] = FALSE]
  /\ UNCHANGED << configVars, closeVars, queue, recvVars, parserVars, nTicks,
                  sendLog, aggVars, startVars, logs, aborted >>

\* a select that sends without waiting for the ticker (a default case)
SenderSelectNoTick(i) ==
  /\ ~aborted
  /\ senderPc[i] = "select"
  /\ senderTick' = [senderTick EXCEPT ![i] = FALSE]
  /\ senderPc' = [senderPc EXCEPT ![i] = "send"]
  /\ UNCHANGED << configVars, closeVars, queue, recvVars, parserVars, nTicks,
                  sendLog, aggVars, startVars, logs, aborted >>

\* select: case <-ticker.C
SenderSelectTick(i) ==
  /\ ~aborted
  /\ senderPc[i] = "select"
  /\ senderTick[i]
  /\ senderTick' = [senderTick EXCEPT ![i] = FALSE]
  /\ senderPc' = [senderPc EXCEPT ![i] = "send"]
  /\ UNCHANGED << configVars, closeVars, queue, recvVars, parserVars, nTicks,
                  sendLog, aggVars, startVars, logs, aborted >>

SenderSend(i) ==
  /\ ~aborted
  /\ senderPc[i] = "send"
  /\ sendOnce("tick")
  /\ senderPc' = [senderPc EXCEPT ![i] = IF aborted' THEN "panic" ELSE "select"]
  /\ UNCHANGED << configVars, closeVars, queue, recvVars, parserVars,
                  senderTick, nTicks, aggVars, startVars >>

TickerLive(i) == senderPc[i] \in {"select", "send"}

\* one request interval elapses: every running ticker gets a value in its
\* channel (capacity 1; a value already waiting is kept, the new one dropped)
TickSender ==
  /\ ~aborted
  /\ nTicks < MaxTicks
  /\ \E i \in Slots : TickerLive(i) /\ ~senderTick[i]
  /\ nTicks' = nTicks + 1
  /\ senderTick' = [i \in Slots |-> senderTick[i] \/ TickerLive(i)]
  /\ UNCHANGED << configVars, closeVars, queue, recvVars, parserVars,
                  senderPc, sendLog, aggVars, startVars, logs, aborted >>

\* ---------------------------------------------------------------- receiver
\* a read that still succeeds on the closed socket
RecvReadOnClosed(d, bound) ==
  /\ ~aborted
  /\ recvPc = "read"
  /\ reads < bound
  /\ reads' = reads + 1
  /\ received' = Append(received, d)
  /\ recvBuf' = d
  /\ recvPc' = "push"
  /\ UNCHANGED << configVars, closeVars, queue, parserVars, senderVars,
                  aggVars, startVars, logs, aborted >>

\* ReadFromUDP returns a datagram d
RecvRead(d, bound) ==
  /\ ~aborted
  /\ recvPc = "read"
  /\ ~connClosed
  /\ reads < bound
  /\ reads' = reads + 1
  /\ received' = Append(received, d)
  /\ recvBuf' = d
  /\ recvPc' = "push"
  /\ UNCHANGED << configVars, closeVars, queue, parserVars, senderVars,
                  aggVars, startVars, logs, aborted >>

\* a receiver that logs the read error and goes on reading
RecvReadErrRetries ==
  /\ ~aborted
  /\ recvPc = "read"
  /\ recvPc' = "read"
  /\ logs' = logs \cup {"ReadFromUDP failed"}
  /\ UNCHANGED << configVars, closeVars, queue, recvBuf, reads, received,
                  parserVars,
                  senderVars, aggVars, startVars, aborted >>

\* ReadFromUDP returns an error: always on a closed socket, and possibly on
\* an open one
RecvReadErr ==
  /\ ~aborted
  /\ recvPc = "read"
  /\ recvPc' = "done"
  /\ logs' = logs \cup {"ReadFromUDP failed"}
  /\ UNCHANGED << configVars, closeVars, queue, recvBuf, reads, received,
                  parserVars,
                  senderVars, aggVars, startVars, aborted >>

\* a push that puts the response in front of the waiting ones
RecvPushInFront ==
  /\ ~aborted
  /\ recvPc = "push"
  /\ IF queueClosed
       THEN /\ recvPc' = "panic"
            /\ aborted' = TRUE
            /\ UNCHANGED queue
       ELSE /\ Len(queue) < QueueCap
            /\ queue' = << recvBuf >> \o queue
            /\ recvPc' = "read"
            /\ UNCHANGED aborted
  /\ UNCHANGED << configVars, closeVars, recvBuf, reads, received, parserVars,
                  senderVars, aggVars, startVars, logs >>

\* a push that gives up on a full queue (a select with a default case)
RecvPushDropsWhenFull ==
  /\ ~aborted
  /\ recvPc = "push"
  /\ IF queueClosed
       THEN /\ recvPc' = "panic"
            /\ aborted' = TRUE
            /\ UNCHANGED queue
       ELSE /\ queue' = IF Len(queue) < QueueCap
                          THEN Append(queue, recvBuf)
                          ELSE queue
            /\ recvPc' = "read"
            /\ UNCHANGED aborted
  /\ UNCHANGED << configVars, closeVars, recvBuf, reads, received, parserVars,
                  senderVars, aggVars, startVars, logs >>

\* coll.queue <- &Response{...}: blocks while the queue is full, panics when
\* the queue is closed (also when it was blocked at the time of the close)
RecvPush ==
  /\ ~aborted
  /\ recvPc = "push"
  /\ IF queueClosed
       THEN /\ recvPc' = "panic"
            /\ aborted' = TRUE
            /\ UNCHANGED queue
       ELSE /\ Len(queue) < QueueCap
            /\ queue' = Append(queue, recvBuf)
            /\ recvPc' = "read"
            /\ UNCHANGED aborted
  /\ UNCHANGED << configVars, closeVars, recvBuf, reads, received, parserVars,
                  senderVars, aggVars, startVars, logs >>

\* ------------------------------------------------------------------ parser
\* Response.parse: inflate and JSON-decode
parse(raw) == [err |-> ~raw.valid, data |-> raw.data]

\* NodeID search with the statistics section first
nodeIDOfStatisticsFirst(res) ==
  IF res.statistics # <<>> THEN res.statistics[1]
  ELSE IF res.neighbours # <<>> THEN res.neighbours[1]
  ELSE IF res.nodeinfo # <<>> THEN res.nodeinfo[1]
  ELSE ""

\* saveResponse: search for the NodeID
nodeIDOf(res) ==
  IF res.nodeinfo # <<>> THEN res.nodeinfo[1]
  ELSE IF res.neighbours # <<>> THEN res.neighbours[1]
  ELSE IF res.statistics # <<>> THEN res.statistics[1]
  ELSE ""

\* length check that only rejects short NodeIDs
ValidNodeIDAtLeast12(nodeID) == Len(nodeID) >= 12

\* saveResponse: check the length of the NodeID
ValidNodeID(nodeID) == Len(nodeID) = 12

Known(id) == \E k \in 1..Len(nodes) : nodes[k].id = id

NodeOf(id) ==
  IF Known(id)
    THEN (CHOOSE k \in 1..Len(nodes) : nodes[k].id = id)
    ELSE 0

\* models.Nodes.Update: a section of the response replaces the node's one
Merged(id, res) ==
  LET old == IF Known(id) THEN nodes[NodeOf(id)].node ELSE NoPayload
  IN  [nodeinfo |-> IF res.nodeinfo # <<>> THEN res.nodeinfo ELSE old.nodeinfo,
       neighbours |-> IF res.neighbours # <<>> THEN res.neighbours ELSE old.neighbours,
       statistics |-> IF res.statistics # <<>> THEN res.statistics ELSE old.statistics]

Update(id, res) ==
  IF Known(id)
    THEN [nodes EXCEPT ![NodeOf(id)] = [id |-> id, node |-> Merged(id, res)]]
    ELSE Append(nodes, [id |-> id, node |-> Merged(id, res)])

\* saveResponse that forwards to the sink on the payload's statistics
saveResponseAddsOnPayloadStats(res) ==
  LET nodeID == nodeIDOf(res) IN
  IF ~ValidNodeID(nodeID)
    THEN /\ logs' = logs \cup {"invalid NodeID"}
         /\ UNCHANGED << nodes, updates, adds >>
    ELSE /\ nodes' = Update(nodeID, res)
         /\ updates' = Append(updates, [id |-> nodeID, res |-> res])
         /\ adds' = IF hasDb /\ res.statistics # <<>>
                      THEN Append(adds, [id |-> nodeID, node |-> Merged(nodeID, res)])
                      ELSE adds
         /\ UNCHANGED logs

\* saveResponse that forwards without testing for a configured sink
saveResponseWithoutSinkTest(res) ==
  LET nodeID == nodeIDOf(res) IN
  IF ~ValidNodeID(nodeID)
    THEN /\ logs' = logs \cup {"invalid NodeID"}
         /\ UNCHANGED << nodes, updates, adds >>
    ELSE /\ nodes' = Update(nodeID, res)
         /\ updates' = Append(updates, [id |-> nodeID, res |-> res])
         /\ adds' = IF Merged(nodeID, res).statistics # <<>>
                      THEN Append(adds, [id |-> nodeID, node |-> Merged(nodeID, res)])
                      ELSE adds
         /\ UNCHANGED logs

\* saveResponse: search the NodeID, check it, update the registry and
\* forward the merged node to the sink
saveResponse(res) ==
  LET nodeID == nodeIDOf(res) IN
  IF ~ValidNodeID(nodeID)
    THEN /\ logs' = logs \cup {"invalid NodeID"}
         /\ UNCHANGED << nodes, updates, adds >>
    ELSE /\ nodes' = Update(nodeID, res)
         /\ updates' = Append(updates, [id |-> nodeID, res |-> res])
         /\ adds' = IF hasDb /\ Merged(nodeID, res).statistics # <<>>
                      THEN Append(adds, [id |-> nodeID, node |-> Merged(nodeID, res)])
                      ELSE adds
         /\ UNCHANGED logs

\* a parser that takes the error branch when parse succeeded
ParserStepErrInverted ==
  /\ ~aborted
  /\ parserPc = "range"
  /\ IF queue # <<>>
       THEN /\ queue' = Tail(queue)
            /\ consumed' = Append(consumed, Head(queue))
            /\ IF ~parse(Head(queue)).err
                 THEN /\ logs' = logs \cup {"unable to decode response"}
                      /\ UNCHANGED << nodes, updates, adds >>
                 ELSE saveResponse(parse(Head(queue)).data)
            /\ UNCHANGED parserPc
       ELSE /\ queueClosed
            /\ parserPc' = "done"
            /\ UNCHANGED << queue, consumed, nodes, updates, adds, logs >>
  /\ UNCHANGED << configVars, closeVars, recvVars, senderVars, aggVars,
                  startVars, aborted >>

\* a parser that returns on the first response it cannot decode
ParserStepReturnsOnErr ==
  /\ ~aborted
  /\ parserPc = "range"
  /\ IF queue # <<>>
       THEN /\ queue' = Tail(queue)
            /\ consumed' = Append(consumed, Head(queue))
            /\ IF parse(Head(queue)).err
                 THEN /\ logs' = logs \cup {"unable to decode response"}
                      /\ parserPc' = "done"
                      /\ UNCHANGED << nodes, updates, adds >>
                 ELSE /\ saveResponse(parse(Head(queue)).data)
                      /\ UNCHANGED parserPc
       ELSE /\ queueClosed
            /\ parserPc' = "done"
            /\ UNCHANGED << queue, consumed, nodes, updates, adds, logs >>
  /\ UNCHANGED << configVars, closeVars, recvVars, senderVars, aggVars,
                  startVars, aborted >>

\* one round of "for obj := range coll.queue", or the end of the loop
ParserStep ==
  /\ ~aborted
  /\ parserPc = "range"
  /\ IF queue # <<>>
       THEN /\ queue' = Tail(queue)
            /\ consumed' = Append(consumed, Head(queue))
            /\ IF parse(Head(queue)).err
                 THEN /\ logs' = logs \cup {"unable to decode response"}
                      /\ UNCHANGED << nodes, updates, adds >>
                 ELSE saveResponse(parse(Head(queue)).data)
            /\ UNCHANGED parserPc
       ELSE /\ queueClosed
            /\ parserPc' = "done"
            /\ UNCHANGED << queue, consumed, nodes, updates, adds, logs >>
  /\ UNCHANGED << configVars, closeVars, recvVars, senderVars, aggVars,
                  startVars, aborted >>

\* ------------------------------------------------------- globalStatsWorker
AggSelectStop ==
  /\ ~aborted
  /\ aggPc = "select"
  /\ stopClosed
  /\ aggPc' = "done"
  /\ aggTick' = FALSE
  /\ UNCHANGED << configVars, closeVars, queue, recvVars, parserVars,
                  senderVars, aggTicks, aggWrites, startVars, logs, aborted >>

AggSelectTick ==
  /\ ~aborted
  /\ aggPc = "select"
  /\ aggTick
  /\ aggTick' = FALSE
  /\ aggPc' = "save"
  /\ UNCHANGED << configVars, closeVars, queue, recvVars, parserVars,
                  senderVars, aggTicks, aggWrites, startVars, logs, aborted >>

\* saveGlobalStats that writes the counter maps only when the registry has
\* nodes to count
AggSaveSkipsEmptyMaps ==
  /\ ~aborted
  /\ aggPc = "save"
  /\ aggWrites' = aggWrites \o
       (IF nodes = <<>>
          THEN << "AddPoint" >>
          ELSE << "AddPoint", "AddCounterMap firmware", "AddCounterMap model" >>)
  /\ aggPc' = "select"
  /\ UNCHANGED << configVars, closeVars, queue, recvVars, parserVars,
                  senderVars, aggTick, aggTicks, startVars, logs, aborted >>

\* saveGlobalStats
AggSave ==
  /\ ~aborted
  /\ aggPc = "save"
  /\ aggWrites' = aggWrites \o << "AddPoint", "AddCounterMap firmware",
                                  "AddCounterMap model" >>
  /\ aggPc' = "select"
  /\ UNCHANGED << configVars, closeVars, queue, recvVars, parserVars,
                  senderVars, aggTick, aggTicks, startVars, logs, aborted >>

\* one minute elapses
TickAgg ==
  /\ ~aborted
  /\ aggTicks < MaxAggTicks
  /\ aggPc \in {"select", "save"}
  /\ ~aggTick
  /\ aggTicks' = aggTicks + 1
  /\ aggTick' = TRUE
  /\ UNCHANGED << configVars, closeVars, queue, recvVars, parserVars,
                  senderVars, aggPc, aggWrites, startVars, logs, aborted >>

\* ----------------------------------------------------------- specification
StartCall == \E iv \in Intervals : Start(iv)
SenderOnce == \E i \in Slots : SenderSendOnce(i)
SenderStop == \E i \in Slots : SenderSelectStop(i)
SenderTick == \E i \in Slots : SenderSelectTick(i)
SenderTickSend == \E i \in Slots : SenderSend(i)
SendPacketCall == \E address \in Addresses : CallSendPacket(address)

RecvReadWire == \E d \in Wire : RecvRead(d, MaxReads)
RecvReadAny == \E d \in AllRaw : RecvRead(d, MaxPayloadReads)
RecvReadMixed == \E d \in Mixed : RecvRead(d, MaxReads)

Next ==
  \/ StartCall
  \/ SendPacketCall
  \/ CloseStop
  \/ CloseConn
  \/ CloseQueue
  \/ SenderOnce
  \/ SenderStop
  \/ SenderTick
  \/ SenderTickSend
  \/ TickSender
  \/ RecvReadWire
  \/ RecvReadErr
  \/ RecvPush
  \/ ParserStep
  \/ AggSelectStop
  \/ AggSelectTick
  \/ AggSave
  \/ TickAgg

Spec == Init /\ [][Next]_vars

\* ----------------------------------------------- shutdown specification
\* The run in which shutdown is studied: the caller keeps the preconditions
\* of Start (a valid interval, no second call), sends no request of its
\* own through SendPacket, and the network delivers well-formed responses.
ValidIntervals == {iv \in Intervals : iv > 0}
StartValidCall == \E iv \in ValidIntervals : interval = 0 /\ Start(iv)
RecvReadValid == \E d \in Wire \ {Garbage} : RecvRead(d, MaxReads)

NextClose ==
  \/ StartValidCall
  \/ CloseStop
  \/ CloseConn
  \/ CloseQueue
  \/ SenderOnce
  \/ SenderStop
  \/ SenderTick
  \/ SenderTickSend
  \/ TickSender
  \/ RecvReadValid
  \/ RecvReadErr
  \/ RecvPush
  \/ ParserStep
  \/ AggSelectStop
  \/ AggSelectTick
  \/ AggSave
  \/ TickAgg

\* The steps of the goroutines and of a caller that is inside Close.  The Go
\* runtime does not idle for ever while one of them can take a step, and a
\* read on the closed socket returns.
TaskStep ==
  \/ CloseConn
  \/ CloseQueue
  \/ SenderOnce
  \/ SenderStop
  \/ SenderTickSend
  \/ (RecvReadErr /\ connClosed)
  \/ RecvPush
  \/ ParserStep
  \/ AggSelectStop
  \/ AggSave

Fairness == WF_vars(TaskStep)

SpecClose == Init /\ [][NextClose]_vars /\ Fairness

\* ---------------------------------------------- pipeline specification
\* receiver, queue, parser and Close, with Start never called and no
\* aggregator minute elapsing
NextPipeline ==
  \/ RecvReadWire
  \/ RecvReadErr
  \/ RecvPush
  \/ ParserStep
  \/ CloseStop
  \/ CloseConn
  \/ CloseQueue

SpecPipeline == Init /\ [][NextPipeline]_vars

\* --------------------------------------------- scheduler specification
\* Start, SendPacket calls of the caller, the sender, the aggregator and
\* Close, with no datagram arriving
NextSched ==
  \/ StartCall
  \/ SendPacketCall
  \/ CloseStop
  \/ CloseConn
  \/ CloseQueue
  \/ SenderOnce
  \/ SenderStop
  \/ SenderTick
  \/ SenderTickSend
  \/ TickSender
  \/ AggSelectStop
  \/ AggSelectTick
  \/ AggSave
  \/ TickAgg

SpecSched == Init /\ [][NextSched]_vars

\* ------------------------------------------------ payload specification
\* responses of every shape pass through receiver, queue and parser of a
\* collector that is neither started nor closed
NextPayload ==
  \/ RecvReadAny
  \/ RecvPush
  \/ ParserStep

SpecPayload == Init /\ [][NextPayload]_vars

\* ---------------------------------------------- registry specification
\* receiver, queue, parser, aggregator and Close, with datagrams that
\* decode or not and carry valid or invalid NodeIDs; Start is never called
NextRegistry ==
  \/ RecvReadMixed
  \/ RecvReadErr
  \/ RecvPush
  \/ ParserStep
  \/ CloseStop
  \/ CloseConn
  \/ CloseQueue
  \/ AggSelectStop
  \/ AggSelectTick
  \/ AggSave
  \/ TickAgg

SpecRegistry == Init /\ [][NextRegistry]_vars

\* ------------------------------------------------------------ properties
\* the identifier the specification extracts from a payload: that of the
\* first present section in the order nodeInfo, neighbours, statistics
IsPresent(section) == section # <<>>

FirstPresentId(res) ==
  LET present == SelectSeq(<< res.nodeinfo, res.neighbours, res.statistics >>,
                           IsPresent)
  IN  IF present = <<>> THEN "" ELSE present[1][1]

IsTickSend(e) == e.kind = "tick"

TickSends == Len(SelectSeq(sendLog, IsTickSend))

\* the writes of the Scheduler: those not made by a call of the caller
IsSchedSend(e) == e.kind # "caller"

SchedSends == SelectSeq(sendLog, IsSchedSend)

Started == {i \in Slots : senderPc[i] # "idle"}

\* C1: the Receiver has exited before Close closes the queue, so that it
\* never executes a push onto the already closed queue, whatever it was
\* doing when Close was called.
C1_NoPushOnClosedQueue == ~(queueClosed /\ recvPc = "panic")

\* C2: every entry that was in the queue when Close() was called has been
\* dequeued and processed by the Parser once the Parser task has ended, and
\* the Parser returns only from an empty queue.
C2_QueuedAtCloseProcessed ==
  /\ (closePc > 0 /\ (parserPc = "done" \/ aborted))
       => Len(consumed) >= closeMark
  /\ parserPc = "done" => queue = <<>>

\* C3: once Close() has returned, no step completes a successful socket
\* read and no step adds an entry to the queue: the queue stays as it is or
\* loses its head.
C3_NoReadNoPushAfterClose ==
  [][closePc = 3 => /\ reads' = reads
                    /\ (queue' = queue \/ queue' = Tail(queue))]_vars

C3_Witness ==
  /\ closePc = 3
  /\ recvPc = "done"
  /\ reads > 0
  /\ queue # <<>>

\* every goroutine that was started has returned
AllTerminated ==
  /\ recvPc = "done"
  /\ parserPc = "done"
  /\ \A i \in Slots : senderPc[i] \in {"idle", "done"}
  /\ aggPc \in {"off", "done"}

\* C4: under fair scheduling, once Close() has been issued on a collector
\* whose multicast address resolves, every started task (receiver, parser,
\* sender, globalStatsWorker) returns and stays so, with no further action
\* of the caller, wherever the tasks were when Close was called.
C4_AllTasksTerminate ==
  []((closePc > 0 /\ resolvable) => <>[]AllTerminated)

\* C5 as stated: after the stop signal the Scheduler issues no further
\* request send and the Aggregator no further sink write.
C5_NoSendAfterStop ==
  [][stopClosed => (SchedSends' = SchedSends /\ aggWrites' = aggWrites)]_vars

\* C5 as amended: after the stop signal a loop that leaves its wait with no
\* tick pending exits; the only sends are the immediate send of Start and
\* the send for a tick the wait selected, the only sink writes the three
\* writes for a tick the wait selected.
C5_StopExitsLoops ==
  [][stopClosed =>
       /\ \A i \in Slots :
            (senderPc[i] = "select" /\ ~senderTick[i] /\ senderPc'[i] # "select")
              => (senderPc'[i] = "done" /\ SchedSends' = SchedSends)
       /\ SchedSends' # SchedSends =>
            /\ Len(SchedSends') = Len(SchedSends) + 1
            /\ \E i \in Slots : /\ senderPc[i] \in {"sendOnce", "send"}
                                /\ senderPc'[i] # senderPc[i]
       /\ (aggPc = "select" /\ ~aggTick /\ aggPc' # "select")
            => (aggPc' = "done" /\ aggWrites' = aggWrites)
       /\ aggWrites' # aggWrites =>
            (aggPc = "save" /\ Len(aggWrites') = Len(aggWrites) + 3)]_vars

C5_Witness ==
  /\ stopClosed
  /\ \E i \in Slots : senderPc[i] = "done"
  /\ aggPc = "done"
  /\ TickSends > 0
  /\ aggWrites # <<>>

\* C6 as stated: the second and every later call of Start panics and spawns
\* no sender.
C6_SecondStartFails ==
  [][(startCalls' > startCalls /\ startCalls >= 1)
       => (startPanics' = startPanics + 1 /\ senderPc' = senderPc)]_vars

\* C6 as amended: every call of Start after one that succeeded panics and
\* spawns no sender; at most one sender loop ever exists and it has issued
\* at most one periodic send per elapsed interval.
C6_StartAfterStartedFails ==
  /\ [](Cardinality(Started) <= 1 /\ TickSends <= nTicks)
  /\ [][(startCalls' > startCalls /\ interval # 0)
          => /\ startPanics' = startPanics + 1
             /\ senderPc' = senderPc
             /\ interval' = interval]_vars

C6_Witness ==
  /\ startCalls >= 2
  /\ startPanics = startCalls - 1
  /\ interval # 0
  /\ nTicks >= 2
  /\ TickSends = nTicks

\* C7: a call Start(interval) with interval <= 0 panics, leaves the stored
\* interval as it was and spawns no sender and sends nothing; while the
\* stored interval is unset no sender exists and nothing has been sent.
C7_NonPositiveIntervalFails ==
  /\ [](interval = 0 => (Started = {} /\ SchedSends = <<>>))
  /\ [][(startCalls' > startCalls /\ lastInterval' <= 0)
          => /\ startPanics' = startPanics + 1
             /\ interval' = interval
             /\ senderPc' = senderPc
             /\ sendLog' = sendLog]_vars

C7_Witness ==
  /\ startCalls >= 2
  /\ startPanics = startCalls
  /\ lastInterval <= 0
  /\ interval = 0

\* C8: the Scheduler's first send is the immediate one and every later send
\* is tick driven, all to the multicast address; whenever the Scheduler is
\* at its wait it has issued one send more than the ticks it has consumed.
C8_OneSendPerTick ==
  /\ \A k \in 1..Len(SchedSends) :
       /\ SchedSends[k].addr = multicastAddr
       /\ (SchedSends[k].kind = "immediate") <=> (k = 1)
  /\ \A i \in Slots :
       /\ senderPc[i] = "select"
            => Len(SchedSends) = 1 + nTicks - (IF senderTick[i] THEN 1 ELSE 0)
       /\ senderPc[i] = "send"
            => Len(SchedSends) = nTicks - (IF senderTick[i] THEN 1 ELSE 0)

C8_Witness ==
  /\ ~stopClosed
  /\ \E i \in Slots : senderPc[i] = "select" /\ ~senderTick[i]
  /\ nTicks >= 2
  /\ Len(SchedSends) = nTicks + 1

\* C9: a decoded payload whose extracted identifier is not 12 characters
\* long is the argument of no Update call and its identifier that of no Add
\* call; the Parser goes on and ends only on the closed queue.
C9_InvalidIdDiscarded ==
  /\ \A k \in 1..Len(consumed) :
       (consumed[k].valid /\ Len(FirstPresentId(consumed[k].data)) # 12)
         => /\ \A u \in 1..Len(updates) : updates[u].res # consumed[k].data
            /\ \A a \in 1..Len(adds) :
                 adds[a].id # FirstPresentId(consumed[k].data)
  /\ parserPc = "done" => queueClosed

C9_Witness ==
  /\ \E k \in 1..Len(consumed) :
       /\ consumed[k].valid
       /\ Len(FirstPresentId(consumed[k].data)) = 13
  /\ updates = <<>>
  /\ "invalid NodeID" \in logs

\* C10: every Update call carries the identifier of the first present
\* section of its payload in the order nodeInfo, neighbours, statistics,
\* and a decoded payload reaches Update exactly when that identifier is
\* valid, whatever the later sections hold.
C10_FirstPresentSectionWins ==
  /\ \A u \in 1..Len(updates) : updates[u].id = FirstPresentId(updates[u].res)
  /\ \A k \in 1..Len(consumed) :
       consumed[k].valid =>
         ((\E u \in 1..Len(updates) : updates[u].res = consumed[k].data)
            <=> Len(FirstPresentId(consumed[k].data)) = 12)

C10_Witness ==
  /\ \E u \in 1..Len(updates) :
       /\ updates[u].res.nodeinfo = << "aabbccddeeff" >>
       /\ updates[u].res.statistics = << "ffeeddccbbaa" >>
       /\ updates[u].id = "aabbccddeeff"

\* a datagram that decodes and whose extracted identifier is valid
IsAccepted(raw) == raw.valid /\ Len(FirstPresentId(raw.data)) = 12

Accepted == SelectSeq(consumed, IsAccepted)

\* C11: the Update calls are, in order, exactly one call per consumed
\* datagram that decodes and carries a 12 character identifier, made with
\* that identifier and that payload.
C11_OneUpdatePerAccepted ==
  /\ Len(updates) = Len(Accepted)
  /\ \A k \in 1..Len(updates) :
       /\ updates[k].id = FirstPresentId(Accepted[k].data)
       /\ updates[k].res = Accepted[k].data

C11_Witness ==
  /\ Len(consumed) >= 3
  /\ Len(updates) = 2
  /\ updates[1].id = updates[2].id
  /\ \E k \in 1..Len(consumed) : ~consumed[k].valid

\* the node updated by the k-th Update call carries statistics after it:
\* that call or an earlier one for the same node brought a statistics section
HasStatsAfter(k) ==
  \E j \in 1..k : /\ updates[j].id = updates[k].id
                  /\ updates[j].res.statistics # <<>>

\* the Update calls that are followed by an Add call
Forwarded == {k \in 1..Len(updates) : hasDb /\ HasStatsAfter(k)}

\* the m-th of them
ForwardedAt(m) ==
  CHOOSE k \in Forwarded : Cardinality({j \in Forwarded : j <= k}) = m

\* C12: the Add calls are, in order, exactly one call per Update call whose
\* merged node carries statistics, made with that call's identifier and the
\* merged node, when a sink is configured; there is no other Add call.
C12_AddIffMergedStatistics ==
  /\ Len(adds) = Cardinality(Forwarded)
  /\ \A m \in 1..Len(adds) :
       /\ adds[m].id = updates[ForwardedAt(m)].id
       /\ adds[m].node.statistics # <<>>
       /\ adds[m].node.nodeinfo # <<>>
            <=> (\E j \in 1..ForwardedAt(m) : updates[j].res.nodeinfo # <<>>)

C12_Witness ==
  /\ hasDb
  /\ Len(updates) = 3
  /\ updates[1].res.statistics = <<>>
  /\ updates[2].res.statistics # <<>>
  /\ updates[3].res.statistics = <<>>
  /\ Len(adds) = 2

\* the three sink writes of one aggregator tick
StatsWrites == << "AddPoint", "AddCounterMap firmware", "AddCounterMap model" >>

\* aggregator ticks whose work is complete
TicksSaved ==
  aggTicks - (IF aggTick THEN 1 ELSE 0) - (IF aggPc = "save" THEN 1 ELSE 0)

\* C13: with a sink, the aggregate sink writes are the three writes
\* AddPoint, AddCounterMap(firmware), AddCounterMap(model) repeated in that
\* order, three per tick whose work is complete, whether or not the
\* registry has nodes to count.
C13_ThreeWritesPerTick ==
  /\ \A k \in 1..Len(aggWrites) : aggWrites[k] = StatsWrites[((k - 1) % 3) + 1]
  /\ Len(aggWrites) % 3 = 0
  /\ aggPc \in {"select", "save"} => Len(aggWrites) = 3 * TicksSaved
  /\ Len(aggWrites) <= 3 * aggTicks

C13_Witness ==
  /\ hasDb
  /\ nodes = <<>>
  /\ aggPc = "select"
  /\ aggTicks >= 1
  /\ Len(aggWrites) = 3 * aggTicks

\* C14: a collector constructed without a sink has no aggregator task and
\* has issued no sink write: no AddPoint, no AddCounterMap, no Add.
C14_NoSinkNoWrites ==
  ~hasDb =>
    /\ aggPc = "off"
    /\ ~aggTick
    /\ aggTicks = 0
    /\ aggWrites = <<>>
    /\ adds = <<>>

C14_Witness ==
  /\ ~hasDb
  /\ Len(updates) >= 2
  /\ \E k \in 1..Len(updates) : updates[k].res.statistics # <<>>
  /\ parserPc = "done"

\* C15: a multicast address that does not resolve is fatal at construction:
\* no collector with running tasks exists, so the resolution never fails
\* later, in a Scheduler task of a constructed and started collector.
C15_ResolveFailureAtConstruction ==
  ~resolvable => \A i \in Slots : senderPc[i] # "panic"

\* a step in which a request write failed: the first failure logged, or any
\* write on the closed socket
WriteFails ==
  /\ sendLog' # sendLog
  /\ \/ "WriteToUDP failed" \notin logs /\ "WriteToUDP failed" \in logs'
     \/ connClosed

\* C16: a step with a failed request write logs it and ends no task: the
\* process goes on, a writing Scheduler is back at its wait (after a write
\* of the caller every Scheduler is where it was), and every
\* other part of the state is as before; a Scheduler leaves its wait for
\* the end only on the stop signal, otherwise for a send, and that send
\* is attempted whatever was logged before.
C16_FailedWriteNonFatal ==
  [][/\ WriteFails =>
          /\ "WriteToUDP failed" \in logs'
          /\ ~aborted'
          /\ IF IsCallerSend(sendLog'[Len(sendLog')])
               THEN senderPc' = senderPc
               ELSE \E i \in Slots :
                      /\ senderPc[i] \in {"sendOnce", "send"}
                      /\ senderPc' = [senderPc EXCEPT ![i] = "select"]
          /\ UNCHANGED << configVars, closeVars, queue, recvVars, parserVars,
                          senderTick, nTicks, aggVars, startVars >>
     /\ \A i \in Slots :
          /\ (senderPc[i] = "select" /\ senderPc'[i] # "select")
               => IF senderPc'[i] = "done" THEN stopClosed
                  ELSE senderTick[i] /\ senderPc'[i] = "send"
          /\ (senderPc[i] = "send" /\ senderPc'[i] # "send" /\ resolvable)
               => Len(SchedSends') = Len(SchedSends) + 1
    ]_vars

C16_Witness ==
  /\ "WriteToUDP failed" \in logs
  /\ ~connClosed /\ ~stopClosed /\ ~aborted
  /\ \E i \in Slots : senderPc[i] = "select" /\ ~senderTick[i]
  /\ Len(SchedSends) >= 2
  /\ sendLog[Len(sendLog)].kind = "tick"

\* C17: the step that dequeues a datagram that does not decode logs the
\* error and nothing else: no Update, no Add, the registry as before, the
\* process and every task as before, the Parser still in its loop with
\* the rest of the queue; the Parser ends only on an empty closed queue.
C17_DecodeErrorAbsorbed ==
  [][/\ (consumed' # consumed /\ parse(Head(queue)).err) =>
          /\ UNCHANGED << nodes, updates, adds >>
          /\ logs' = logs \cup {"unable to decode response"}
          /\ parserPc' = "range"
          /\ queue' = Tail(queue)
          /\ UNCHANGED << configVars, closeVars, recvVars, senderVars,
                          aggVars, startVars, aborted >>
     /\ parserPc' = "done" => (queue' = <<>> /\ queueClosed')
    ]_vars

C17_Witness ==
  /\ Len(consumed) = 3
  /\ ~consumed[1].valid
  /\ IsAccepted(consumed[2])
  /\ ~consumed[3].valid
  /\ Len(updates) = 1
  /\ parserPc = "range"

\* the response the Receiver has read and not yet pushed
InHand == IF recvPc \in {"push", "panic"} THEN << recvBuf >> ELSE <<>>

\* C18: the datagrams in the order the Receiver read them are the ones the
\* Parser has processed, in the Parser's order, then the queue from its
\* head, then the one the Receiver holds; the Update calls follow the
\* order of the processed datagrams.
C18_FifoByArrival ==
  /\ received = consumed \o queue \o InHand
  /\ \A j, k \in 1..Len(updates) :
       j < k =>
         \E a, b \in 1..Len(consumed) :
           /\ a < b
           /\ IsAccepted(consumed[a]) /\ consumed[a].data = updates[j].res
           /\ IsAccepted(consumed[b]) /\ consumed[b].data = updates[k].res

C18_Witness ==
  /\ Len(consumed) = 1
  /\ Len(queue) = 2
  /\ IsAccepted(consumed[1])
  /\ IsAccepted(queue[1])
  /\ consumed[1] # queue[1]
  /\ queue[1] # queue[2]

\* C19: the queue never holds more than its capacity; while the Receiver
\* is at its push with the queue full and open, a step leaves the Receiver
\* where it is, with the response it holds and no further read, and the
\* queue as it is or without its head; the Receiver goes from its push
\* back to reading only by appending the response it holds, and every
\* response read is processed, queued or in the Receiver's hand.
C19_BoundedQueueBlocks ==
  [][/\ Len(queue') <= QueueCap
     /\ (recvPc = "push" /\ Len(queue) = QueueCap /\ ~queueClosed) =>
          /\ UNCHANGED recvVars
          /\ queue' \in {queue, Tail(queue)}
     /\ (recvPc = "push" /\ recvPc' # "push") =>
          \/ recvPc' = "read" /\ queue' = Append(queue, recvBuf)
          \/ recvPc' = "panic" /\ queueClosed
     /\ reads' # reads => (recvPc = "read" /\ reads' = reads + 1)
     /\ reads' = Len(consumed') + Len(queue') + Len(InHand')
    ]_vars

C19_Witness ==
  /\ Len(queue) = QueueCap
  /\ recvPc = "push"
  /\ ~queueClosed
  /\ reads = QueueCap + 1
  /\ consumed = <<>>

\* C20: the step in which a socket read fails ends the Receiver and
\* changes no other task; the ended Receiver stays ended, reads nothing
\* and pushes nothing, so that the queue only loses its head; the Parser
\* ends only on the closed queue, the Scheduler and the Aggregator only on
\* the stop signal.
C20_ReadErrorEndsReceiverOnly ==
  [][/\ "ReadFromUDP failed" \in logs' => recvPc' = "done"
     /\ (recvPc # "done" /\ recvPc' = "done") =>
          UNCHANGED << configVars, closeVars, queue, parserVars, senderVars,
                       aggVars, startVars, aborted >>
     /\ recvPc = "done" =>
          /\ UNCHANGED recvVars
          /\ \/ queue' = queue
             \/ queue # <<>> /\ queue' = Tail(queue)
     /\ (parserPc # "done" /\ parserPc' = "done") => queueClosed
     /\ \A i \in Slots :
          (senderPc[i] # "done" /\ senderPc'[i] = "done") => stopClosed
     /\ (aggPc # "done" /\ aggPc' = "done") => stopClosed
    ]_vars

C20_Witness ==
  /\ "ReadFromUDP failed" \in logs
  /\ recvPc = "done"
  /\ closePc = 0
  /\ ~aborted
  /\ parserPc = "range"
  /\ queue = <<>> /\ consumed # <<>>
  /\ \E i \in Slots : senderPc[i] = "select" /\ Len(sendLog) >= 2
  /\ aggPc = "select" /\ aggWrites # <<>>

====
